---------------------------- MODULE Spec2Model ----------------------------
(***************************************************************************)
(* rdhcpd: the lease store, the pool allocator and the per-packet state    *)
(* machine of src/src/dhcpd.rs.                                            *)
(*                                                                         *)
(* Addresses are the u32 values of Ipv4Addr (conf.start.into()).  Times    *)
(* are readings of utils::now_timestamp_ms counted in units of 1000 ms:    *)
(* the code only adds and compares times, and 1000 * 86400 * 365 does not  *)
(* fit the 32-bit integers of TLC.  The configuration has start <= end, so *)
(* no u32 operation of the code wraps.                                     *)
(*                                                                         *)
(* A handler reads the clock at each call of utils::now_timestamp_ms, and   *)
(* the clock may advance between two calls of one handler: the readings of *)
(* a handler are a nondecreasing sequence that starts at the current       *)
(* reading.  Dhcpd::available calls it only when its && and || reach the   *)
(* call: for an address of the pool that holds a lease of another client.  *)
(*                                                                         *)
(* Spec is the server on a file system that does not fail, with a clock    *)
(* that advances; SpecDisk is the server on a file system that may fail    *)
(* any save_leases, with a clock that stands still.                        *)
(***************************************************************************)
EXTENDS Integers, Sequences, FiniteSets, TLC

VARIABLES
    leases,       \* Dhcpd.leases: HashMap<Ipv4Addr, Lease>, a function ip -> [mac, expiry]
    iter_first,   \* per hardware address, the entry the HashMap's iteration meets first
    last_lease,   \* Dhcpd.last_lease
    file,         \* the persistence file conf.lease_file
    lease_static, \* the static file conf.lease_static: its lines "MAC,IP", read at every start
    now,          \* the clock read by utils::now_timestamp_ms
    reads,        \* the readings of the clock the last handler (or load) made, in order
    msg,          \* the packet handle_request was last called with
    effects       \* what handling that packet did outside the store, in order:
                  \* the save_leases calls and the replies handed to server.reply

vars == <<leases, iter_first, last_lease, file, lease_static, now, reads, msg, effects>>

----------------------------------------------------------------------------
\* Bounds of the model.

\* the last reading the model lets the clock reach (the first is 0)
MaxNow == 1

----------------------------------------------------------------------------
\* Configuration (config.rs) and constants.

\* conf.start as u32: 10.0.0.10
Start == 167772170
\* conf.end as u32: 10.0.0.12
End == 167772172
\* conf.lease_time parsed by duration_str, in seconds
LeaseSecs == 3
\* INFINITE_LEASE = 1000 * 86400 * 365 ms, in units of 1000 ms
INFINITE_LEASE == 86400 * 365

\* hardware addresses (chaddr) of the clients
Macs == {1, 2, 3}
\* the static files the model starts with: an empty one, and one line for 10.0.0.10
StaticFiles == { <<>>, << [mac |-> 1, ip |-> Start] >> }

\* 0.0.0.0
ZeroIp == 0
\* the addresses packets name: 0.0.0.0, the pool, and conf.end itself
IPs == {ZeroIp} \cup (Start .. End)
\* no entry
NoIp == 0 - 1

EmptyMap == [x \in {} |-> 0]

----------------------------------------------------------------------------
\* The clock.

\* what n successive calls of utils::now_timestamp_ms can return: the first returns
\* the current reading, the clock does not go back
ReadingSeqs(n) ==
    {ts \in [1 .. n -> now .. MaxNow] :
        /\ n >= 1 => ts[1] = now
        /\ \A i \in 1 .. (n - 1) : ts[i] <= ts[i + 1]}

\* what n successive calls return while the clock stands still
StillSeqs(n) == {[i \in 1 .. n |-> now]}

\* the reading of the clock after the calls that returned ts
LastReading(ts) == IF Len(ts) = 0 THEN now ELSE ts[Len(ts)]

\* the most calls of utils::now_timestamp_ms a Request makes: one in available,
\* when the requested address holds a lease of another client, and one in
\* Lease::new, when the Request is granted
RequestReads == 2

----------------------------------------------------------------------------
\* Ipv4Addr <-> text key of the JSON object (serde: "a.b.c.d")

ToKey(ip) ==
    << ip \div 16777216, (ip \div 65536) % 256, (ip \div 256) % 256, ip % 256 >>

FromKey(k) == ((k[1] * 256 + k[2]) * 256 + k[3]) * 256 + k[4]

\* serde_json::to_writer(writer, &self.leases)
Serialize(m) ==
    [k \in {ToKey(ip) : ip \in DOMAIN m} |-> m[FromKey(k)]]

\* serde_json::from_reader(reader) into HashMap<Ipv4Addr, Lease>
Deserialize(d) ==
    [ip \in {FromKey(k) : k \in DOMAIN d} |-> d[ToKey(ip)]]

----------------------------------------------------------------------------
\* Dhcpd

\* Lease::new
Lease(mac, expiry) == [mac |-> mac, expiry |-> expiry]

start_num == Start
end_num == End
\* lease_nums taking conf.end as the last address of the pool
lease_nums_Inclusive == end_num - start_num + 1

lease_nums == end_num - start_num
lease_secs == LeaseSecs

\* available with the expiry test off by one: a lease counts as expired at its expiry
availableIn_AtExpiry(ls, t, chaddr, addr) ==
    /\ addr >= Start
    /\ addr < End
    /\ IF addr \in DOMAIN ls
       THEN ls[addr].mac = chaddr \/ t >= ls[addr].expiry
       ELSE TRUE

\* Dhcpd::available, on a given store and clock reading
availableIn(ls, t, chaddr, addr) ==
    /\ addr >= start_num
    /\ addr < start_num + lease_nums
    /\ IF addr \in DOMAIN ls
       THEN ls[addr].mac = chaddr \/ t > ls[addr].expiry
       ELSE TRUE

available(chaddr, addr) == availableIn(leases, now, chaddr, addr)

\* whether Dhcpd::available calls utils::now_timestamp_ms: its && and || reach the
\* call only for an address in range that holds a lease of another hardware address
available_reads(ls, chaddr, addr) ==
    /\ addr >= start_num
    /\ addr < start_num + lease_nums
    /\ addr \in DOMAIN ls
    /\ ls[addr].mac # chaddr

\* the entries of a store held by a hardware address
Held(ls, h) == {ip \in DOMAIN ls : ls[ip].mac = h}

\* what current_lease can return for h on a store ls: any entry h holds, the
\* iteration order of a HashMap being arbitrary
Firsts(ls, h) == IF Held(ls, h) = {} THEN {NoIp} ELSE Held(ls, h)

RECURSIVE FirstsOver(_, _)
\* the functions that choose, for each h of S, one of Firsts(ls, h)
FirstsOver(ls, S) ==
    IF S = {} THEN {EmptyMap}
    ELSE LET h == CHOOSE x \in S : TRUE
         IN  {[x \in DOMAIN f \cup {h} |-> IF x = h THEN v ELSE f[x]] :
                  f \in FirstsOver(ls, S \ {h}), v \in Firsts(ls, h)}

\* the iteration orders a HashMap holding ls can have, as seen by current_lease
IterFirsts(ls) == FirstsOver(ls, Macs)

\* Dhcpd::current_lease: the first entry of the iteration whose mac matches
current_lease(chaddr) == iter_first[chaddr]

\* what the file system does to a save_leases
DiskOutcomes == {"ok", "create_fails", "write_fails"}

\* Dhcpd::save_leases, outcome d of the file system
save_leases(ls, d) ==
    IF d = "ok" THEN [state |-> "json", data |-> Serialize(ls)]
    ELSE IF d = "create_fails" THEN file
    ELSE [state |-> "garbage", data |-> EmptyMap]

\* what Dhcpd::save_leases prints when the file system does d.  to_writer fills
\* the buffer of the BufWriter and returns Ok; the write to the file happens when the
\* BufWriter is dropped, and its error is discarded, so a failed write prints what a
\* successful one prints.  (The "ERROR" line needs a store whose JSON text exceeds
\* the 8 KiB buffer, which a pool of lease_nums addresses does not reach.)
save_leases_prints(d) ==
    IF d = "create_fails" THEN "nothing"
    ELSE "success"

\* the options Dhcpd::reply passes to server.reply
ReplyOptions ==
    << [tag |-> "IpAddressLeaseTime", val |-> lease_secs],
       [tag |-> "SubnetMask", val |-> "netmask"],
       [tag |-> "Router", val |-> "gateway"],
       [tag |-> "DomainNameServer", val |-> "dns_servers"] >>

\* Dhcpd::reply: what it hands to server.reply
reply(msg_type, offer_ip) ==
    [type |-> msg_type, options |-> ReplyOptions, yiaddr |-> offer_ip]

\* Dhcpd::nak: what it hands to server.reply
nak(message) ==
    [type |-> "Nak",
     options |-> << [tag |-> "Message", val |-> message] >>,
     yiaddr |-> ZeroIp]

\* the entries of the log of effects
NoReply == [type |-> "none", options |-> <<>>, yiaddr |-> ZeroIp]
Saved(d) == [kind |-> "save", result |-> d, reply |-> NoReply]
Replied(r) == [kind |-> "reply", result |-> "none", reply |-> r]

IsReply(e) == e.kind = "reply"
IsSave(e) == e.kind = "save"

\* the replies of a log, in order
Replies(log) ==
    LET rs == SelectSeq(log, IsReply) IN [i \in 1 .. Len(rs) |-> rs[i].reply]

\* what save_leases did in a log: "none" when it was not called
Wrote(log) ==
    LET ws == SelectSeq(log, IsSave) IN IF Len(ws) = 0 THEN "none" ELSE ws[1].result

sent == Replies(effects)
wrote == Wrote(effects)

\* HashMap::insert and HashMap::remove
Insert(ls, ip, l) == [x \in DOMAIN ls \cup {ip} |-> IF x = ip THEN l ELSE ls[x]]
Remove(ls, ip) == [x \in DOMAIN ls \ {ip} |-> ls[x]]

----------------------------------------------------------------------------
\* load_leases

Max(S) == CHOOSE x \in S : \A y \in S : y <= x

\* the loop over the loaded leases that computes last_lease
LoadCursor(ls) ==
    LET inside == {ux \in DOMAIN ls : ux > 0 /\ ux > Start /\ ux < End}
    IN  IF inside = {} THEN 0 ELSE Max(inside)

RECURSIVE Overlay(_, _, _, _)
\* the loop over the lines of the static file, from line i on; ts[i] is the reading
\* of the clock at line i
Overlay(ls, lines, i, ts) ==
    IF i > Len(lines) THEN ls
    ELSE LET ip == lines[i].ip
             l == Lease(lines[i].mac, ts[i] + INFINITE_LEASE)
         IN  Overlay(Insert(ls, ip, l), lines, i + 1, ts)

\* load_leases with the static lines inserted first and the file's entries over them
load_leases_FileOverStatic(f, lines, ts) ==
    LET loaded == IF f.state = "json" THEN Deserialize(f.data) ELSE EmptyMap
        statics == Overlay(EmptyMap, lines, 1, ts)
    IN  [leases |-> [x \in DOMAIN statics \cup DOMAIN loaded |->
                        IF x \in DOMAIN loaded THEN loaded[x] ELSE statics[x]],
         last_lease |-> LoadCursor(loaded)]

load_leases(f, lines, ts) ==
    LET loaded == IF f.state = "json" THEN Deserialize(f.data) ELSE EmptyMap
    IN  [leases |-> Overlay(loaded, lines, 1, ts), last_lease |-> LoadCursor(loaded)]

----------------------------------------------------------------------------
\* Packets

NoPacket == [type |-> "none", chaddr |-> 0, opt50 |-> <<>>, ciaddr |-> ZeroIp, fts |-> FALSE]

Packet(type, chaddr, opt50, ciaddr, fts) ==
    [type |-> type, chaddr |-> chaddr, opt50 |-> opt50, ciaddr |-> ciaddr, fts |-> fts]

\* server.for_this_server(&in_packet)
for_this_server(p) == p.fts

\* the requested address of a Request: option 50, else ciaddr
req_ip(p) == IF Len(p.opt50) = 1 THEN p.opt50[1] ELSE p.ciaddr

----------------------------------------------------------------------------
\* Dhcpd::new, at process start

Init ==
    /\ now = 0
    /\ file = [state |-> "missing", data |-> EmptyMap]
    /\ lease_static \in StaticFiles
    /\ reads = [i \in 1 .. Len(lease_static) |-> 0]
    /\ LET l == load_leases(file, lease_static, reads)
       IN  /\ leases = l.leases
           /\ last_lease = l.last_lease
           /\ iter_first \in IterFirsts(l.leases)
    /\ msg = NoPacket
    /\ effects = <<>>

\* the process is stopped by a signal and started again
Restart ==
    /\ \E ts \in ReadingSeqs(Len(lease_static)) :
           LET l == load_leases(file, lease_static, ts)
           IN  /\ leases' = l.leases
               /\ last_lease' = l.last_lease
               /\ iter_first' \in IterFirsts(l.leases)
               /\ reads' = ts
    /\ now' = LastReading(reads')
    /\ msg' = NoPacket
    /\ effects' = <<>>
    /\ UNCHANGED <<file, lease_static>>

\* time passes
Tick ==
    /\ now < MaxNow
    /\ now' = now + 1
    /\ UNCHANGED <<leases, iter_first, last_lease, file, lease_static, reads, msg, effects>>

----------------------------------------------------------------------------
\* Dhcpd::handle_request

RECURSIVE Scan(_, _, _, _, _, _)
\* the allocator loop of the Discover arm from its iteration i on, of n iterations:
\* cursor ll; used is the number of calls of utils::now_timestamp_ms made so far,
\* ts[j] what the j-th call returns
Scan(ll, i, n, chaddr, ts, used) ==
    IF i > n THEN [found |-> FALSE, last |-> ll, ip |-> NoIp, used |-> used]
    ELSE LET nl == (ll + 1) % lease_nums
             off_ip == start_num + nl
             calls == available_reads(leases, chaddr, off_ip)
             u == IF calls THEN used + 1 ELSE used
             t == IF calls THEN ts[u] ELSE now
         IN  IF availableIn(leases, t, chaddr, off_ip)
             THEN [found |-> TRUE, last |-> nl, ip |-> off_ip, used |-> u]
             ELSE Scan(nl, i + 1, n, chaddr, ts, u)

\* DiscoverHeld running the allocator loop for a sender that holds a lease
DiscoverHeld_Allocate(p) ==
    LET ts == [i \in 1 .. lease_nums |-> now]
        r == Scan(last_lease, 1, lease_nums, p.chaddr, ts, 0)
    IN  /\ last_lease' = r.last
        /\ effects' = IF r.found THEN << Replied(reply("Offer", r.ip)) >> ELSE <<>>
        /\ reads' = SubSeq(ts, 1, r.used)

\* Discover, the sender holds a lease: offer it
DiscoverHeld(p) ==
    /\ effects' = << Replied(reply("Offer", current_lease(p.chaddr))) >>
    /\ reads' = <<>>
    /\ UNCHANGED last_lease

\* DiscoverScan with a loop one iteration short
DiscoverScan_OneShort(p, ts) ==
    LET r == Scan(last_lease, 1, lease_nums - 1, p.chaddr, ts, 0)
    IN  /\ last_lease' = r.last
        /\ effects' = IF r.found THEN << Replied(reply("Offer", r.ip)) >> ELSE <<>>
        /\ reads' = SubSeq(ts, 1, r.used)

\* DiscoverScan leaving the cursor where it was
DiscoverScan_KeepCursor(p, ts) ==
    LET r == Scan(last_lease, 1, lease_nums, p.chaddr, ts, 0)
    IN  /\ last_lease' = last_lease
        /\ effects' = IF r.found THEN << Replied(reply("Offer", r.ip)) >> ELSE <<>>
        /\ reads' = SubSeq(ts, 1, r.used)

\* Discover, the sender holds none: the allocator loop; the clock is read in the
\* iterations whose address holds a lease of another hardware address
DiscoverScan(p, ts) ==
    LET r == Scan(last_lease, 1, lease_nums, p.chaddr, ts, 0)
    IN  /\ last_lease' = r.last
        /\ effects' = IF r.found THEN << Replied(reply("Offer", r.ip)) >> ELSE <<>>
        /\ reads' = SubSeq(ts, 1, r.used)

\* Ok(MessageType::Discover)
HandleDiscover(p, ts) ==
    /\ p.type = "Discover"
    /\ msg' = p
    /\ IF current_lease(p.chaddr) # NoIp THEN DiscoverHeld(p) ELSE DiscoverScan(p, ts)
    /\ now' = LastReading(reads')
    /\ UNCHANGED <<leases, iter_first, file, lease_static>>

\* RequestHeld renewing the lease it acks
RequestHeld_Renew(p) ==
    /\ effects' = << Replied(reply("Ack", current_lease(p.chaddr))) >>
    /\ leases' = Insert(leases, current_lease(p.chaddr), Lease(p.chaddr, now))
    /\ UNCHANGED <<iter_first, file>>

\* Request, the sender holds a lease: ack it
RequestHeld(p) ==
    /\ effects' = << Replied(reply("Ack", current_lease(p.chaddr))) >>
    /\ UNCHANGED <<leases, iter_first, file>>

\* RequestDenied answering nothing
RequestDenied_Silent(p) ==
    /\ effects' = <<>>
    /\ UNCHANGED <<leases, iter_first, file>>

\* Request, the requested address is not available: nak
RequestDenied(p) ==
    /\ effects' = << Replied(nak("Requested IP not available")) >>
    /\ UNCHANGED <<leases, iter_first, file>>

\* RequestGranted sending the Ack before it saves
RequestGranted_AckFirst(p, d, t) ==
    /\ leases' = Insert(leases, req_ip(p), Lease(p.chaddr, t))
    /\ iter_first' \in IterFirsts(leases')
    /\ file' = save_leases(leases', d)
    /\ effects' = << Replied(reply("Ack", req_ip(p))), Saved(d) >>

\* RequestGranted returning at once when the packet is not for this server
RequestGranted_Gated(p, d, t) ==
    IF ~for_this_server(p)
    THEN /\ effects' = <<>>
         /\ UNCHANGED <<leases, iter_first, file>>
    ELSE /\ leases' = Insert(leases, req_ip(p), Lease(p.chaddr, t))
         /\ iter_first' \in IterFirsts(leases')
         /\ file' = save_leases(leases', d)
         /\ effects' = << Saved(d), Replied(reply("Ack", req_ip(p))) >>

\* Request, granted: insert, save, ack; d is what the file system does to the save,
\* t the reading of the clock in Lease::new
RequestGranted(p, d, t) ==
    /\ leases' = Insert(leases, req_ip(p), Lease(p.chaddr, t))
    /\ iter_first' \in IterFirsts(leases')
    /\ file' = save_leases(leases', d)
    /\ effects' = << Saved(d), Replied(reply("Ack", req_ip(p))) >>

\* the body of the Request arm; ts[j] is what the j-th call of
\* utils::now_timestamp_ms returns: available calls it when the requested address
\* holds a lease of another hardware address, Lease::new calls it when the Request
\* is granted
RequestArm(p, d, ts) ==
    /\ IF current_lease(p.chaddr) # NoIp
       THEN RequestHeld(p) /\ reads' = <<>>
       ELSE IF available_reads(leases, p.chaddr, req_ip(p))
       THEN IF ~availableIn(leases, ts[1], p.chaddr, req_ip(p))
            THEN RequestDenied(p) /\ reads' = << ts[1] >>
            ELSE RequestGranted(p, d, ts[2]) /\ reads' = << ts[1], ts[2] >>
       ELSE IF ~availableIn(leases, now, p.chaddr, req_ip(p))
            THEN RequestDenied(p) /\ reads' = <<>>
            ELSE RequestGranted(p, d, ts[1]) /\ reads' = << ts[1] >>
    /\ now' = LastReading(reads')
    /\ UNCHANGED <<last_lease, lease_static>>

\* Ok(MessageType::Request)
HandleRequest(p, d, ts) ==
    /\ p.type = "Request"
    /\ msg' = p
    /\ RequestArm(p, d, ts)

\* Release or Decline, not for this server: return
ReleaseIgnored(p) ==
    /\ effects' = <<>>
    /\ UNCHANGED <<leases, iter_first, file>>

\* ReleaseHeld removing every entry of the store
ReleaseHeld_Clear(p, d) ==
    IF current_lease(p.chaddr) # NoIp
    THEN /\ leases' = EmptyMap
         /\ iter_first' \in IterFirsts(leases')
         /\ file' = save_leases(leases', d)
         /\ effects' = << Saved(d) >>
    ELSE /\ effects' = <<>>
         /\ UNCHANGED <<leases, iter_first, file>>

\* ReleaseHeld leaving the file as it was
ReleaseHeld_NoSave(p, d) ==
    IF current_lease(p.chaddr) # NoIp
    THEN /\ leases' = Remove(leases, current_lease(p.chaddr))
         /\ iter_first' \in IterFirsts(leases')
         /\ effects' = <<>>
         /\ UNCHANGED file
    ELSE /\ effects' = <<>>
         /\ UNCHANGED <<leases, iter_first, file>>

\* Release or Decline, for this server: remove the sender's lease and save
ReleaseHeld(p, d) ==
    IF current_lease(p.chaddr) # NoIp
    THEN /\ leases' = Remove(leases, current_lease(p.chaddr))
         /\ iter_first' \in IterFirsts(leases')
         /\ file' = save_leases(leases', d)
         /\ effects' = << Saved(d) >>
    ELSE /\ effects' = <<>>
         /\ UNCHANGED <<leases, iter_first, file>>

\* the body of the Release | Decline arm
ReleaseArm(p, d) ==
    /\ IF ~for_this_server(p) THEN ReleaseIgnored(p) ELSE ReleaseHeld(p, d)
    /\ reads' = <<>>
    /\ UNCHANGED <<last_lease, lease_static, now>>

\* Ok(MessageType::Release) | Ok(MessageType::Decline)
HandleRelease(p, d) ==
    /\ p.type \in {"Release", "Decline"}
    /\ msg' = p
    /\ ReleaseArm(p, d)

\* HandleOther answering with a Nak
HandleOther_Nak(p) ==
    /\ p.type \in {"Inform", "Offer", "Ack", "Nak", "absent"}
    /\ msg' = p
    /\ effects' = << Replied(nak("not supported")) >>
    /\ reads' = <<>>
    /\ UNCHANGED <<leases, iter_first, last_lease, file, lease_static, now>>

\* the default arm: Inform, Offer, Ack, Nak, or no readable option 53
HandleOther(p) ==
    /\ p.type \in {"Inform", "Offer", "Ack", "Nak", "absent"}
    /\ msg' = p
    /\ effects' = <<>>
    /\ reads' = <<>>
    /\ UNCHANGED <<leases, iter_first, last_lease, file, lease_static, now>>

----------------------------------------------------------------------------
\* The packets the model draws.

DiscoverPackets == {Packet("Discover", h, <<>>, ZeroIp, FALSE) : h \in Macs}

\* option 50 names a pool address or conf.end (ciaddr 0.0.0.0), or option 50 is
\* absent and ciaddr is 0.0.0.0 or a pool address
RequestPackets ==
    {Packet("Request", h, <<ip>>, ZeroIp, f) : h \in Macs, ip \in Start .. End, f \in BOOLEAN}
    \cup {Packet("Request", h, <<>>, ip, f) : h \in Macs, ip \in {ZeroIp, Start + 1}, f \in BOOLEAN}

ReleasePackets ==
    {Packet(t, h, <<>>, ZeroIp, f) : t \in {"Release", "Decline"}, h \in Macs, f \in BOOLEAN}

OtherPackets ==
    {Packet(t, 2, <<>>, ZeroIp, FALSE) : t \in {"Inform", "Offer", "Ack", "Nak", "absent"}}

Discover ==
    \E p \in DiscoverPackets, ts \in ReadingSeqs(lease_nums) : HandleDiscover(p, ts)
Request ==
    \E p \in RequestPackets, ts \in ReadingSeqs(RequestReads) : HandleRequest(p, "ok", ts)
Release == \E p \in ReleasePackets : HandleRelease(p, "ok")
Other == \E p \in OtherPackets : HandleOther(p)

\* the server with a file system that does not fail
Next == Tick \/ Restart \/ Discover \/ Request \/ Release \/ Other

Spec == Init /\ [][Next]_vars

\* the packets whose handling calls save_leases
Saves(p) ==
    IF p.type = "Request"
    THEN current_lease(p.chaddr) = NoIp /\ available(p.chaddr, req_ip(p))
    ELSE for_this_server(p) /\ current_lease(p.chaddr) # NoIp

DiscoverStill ==
    \E p \in DiscoverPackets, ts \in StillSeqs(lease_nums) : HandleDiscover(p, ts)
RequestDisk ==
    \E p \in RequestPackets, d \in DiskOutcomes, ts \in StillSeqs(RequestReads) :
        (d = "ok" \/ Saves(p)) /\ HandleRequest(p, d, ts)
ReleaseDisk ==
    \E p \in ReleasePackets, d \in DiskOutcomes : (d = "ok" \/ Saves(p)) /\ HandleRelease(p, d)

\* the server with a file system that may fail any save_leases, the clock standing
\* still
NextDisk == Restart \/ DiscoverStill \/ RequestDisk \/ ReleaseDisk \/ Other

SpecDisk == Init /\ [][NextDisk]_vars

----------------------------------------------------------------------------
\* Properties.

\* the step handles packet p (and is not the clock advancing after p was handled)
Handled(p) == msg' = p /\ (now' = now \/ reads' # reads)

\* the addresses of the pool [start, end)
Pool == Start .. (End - 1)

\* the addresses the static file names
StaticIps == {lease_static[i].ip : i \in 1 .. Len(lease_static)}

\* the store a start at clock reading t loads after save_leases has written ls
Reloaded(ls, t) ==
    load_leases(save_leases(ls, "ok"), lease_static, [i \in 1 .. Len(lease_static) |-> t]).leases

\* C1 (as claimed): once A's Request for X was acked with a new lease that was
\* inserted and saved, a Request for X that follows (time may pass, within the lease
\* duration) from another hardware address that holds no lease is answered by a Nak,
\* and the store still maps X to A.
C1_ContentionNak ==
    [][\A p \in RequestPackets :
        ( /\ msg.type = "Request"
          /\ wrote = "ok"
          /\ sent = << reply("Ack", req_ip(msg)) >>
          /\ req_ip(msg) \in DOMAIN leases
          /\ leases[req_ip(msg)].mac = msg.chaddr
          /\ Handled(p)
          /\ p.chaddr # msg.chaddr
          /\ current_lease(p.chaddr) = NoIp
          /\ req_ip(p) = req_ip(msg)
          /\ now < lease_secs )
        => ( /\ Len(Replies(effects')) = 1
             /\ Replies(effects')[1].type = "Nak"
             /\ req_ip(msg) \in DOMAIN leases'
             /\ leases'[req_ip(msg)].mac = msg.chaddr )]_vars

\* C2 (as claimed): a Discover that follows a Discover from the same hardware address,
\* no other packet handled in between, is answered as the first one was.
C2_DiscoverIdempotent ==
    [][\A p \in DiscoverPackets : (msg = p /\ Handled(p)) => Replies(effects') = sent]_vars

\* C3 (as claimed): every hardware address of the static file resolves by
\* current_lease to its static address, and no Offer or Ack carries that address to
\* another hardware address.
C3_StaticPermanent ==
    \A i \in 1 .. Len(lease_static) :
        /\ current_lease(lease_static[i].mac) = lease_static[i].ip
        /\ \A j \in 1 .. Len(sent) :
               (sent[j].type \in {"Offer", "Ack"} /\ sent[j].yiaddr = lease_static[i].ip)
               => msg.chaddr = lease_static[i].mac

\* C4 (as claimed): no hardware address holds more than one entry of the store.
C4_OneLeasePerMac ==
    \A h \in Macs : Cardinality(Held(leases, h)) <= 1

\* C5: available(h, ip) is true iff start <= ip < end and the store has no lease at
\* ip, or h holds it, or its expiry is in the past; so an unexpired lease of another
\* hardware address makes it false, and an expired lease makes it true for everyone.
C5_Available ==
    \A h \in Macs, ip \in IPs :
        /\ available(h, ip) <=>
               ( /\ Start <= ip
                 /\ ip < End
                 /\ \/ ip \notin DOMAIN leases
                    \/ leases[ip].mac = h
                    \/ leases[ip].expiry < now )
        /\ (ip \in DOMAIN leases /\ leases[ip].mac # h /\ leases[ip].expiry >= now)
               => ~available(h, ip)
        /\ (ip \in Pool /\ ip \in DOMAIN leases /\ leases[ip].expiry < now)
               => available(h, ip)

\* a lease of another hardware address that is not expired, and one that is
C5_Witness ==
    \E h \in Macs, ip1 \in Pool, ip2 \in Pool :
        /\ ip1 \in DOMAIN leases /\ leases[ip1].mac # h /\ leases[ip1].expiry >= now
        /\ ~available(h, ip1)
        /\ ip2 \in DOMAIN leases /\ leases[ip2].mac # h /\ leases[ip2].expiry < now
        /\ available(h, ip2)

\* C6: whatever last_lease is, the value of the startup load included, the address
\* the allocator loop selects, and every address it has offered, is in [start, end).
C6_PoolBound ==
    /\ \A h \in Macs : \A ts \in ReadingSeqs(lease_nums) :
           LET r == Scan(last_lease, 1, lease_nums, h, ts, 0)
           IN  r.found => (Start <= r.ip /\ r.ip < End)
    /\ (msg.type = "Discover" /\ current_lease(msg.chaddr) = NoIp)
           => \A j \in 1 .. Len(sent) : Start <= sent[j].yiaddr /\ sent[j].yiaddr < End

\* the allocator loop selects an address from the cursor the startup load computed
C6_Witness ==
    /\ last_lease >= lease_nums
    /\ \E h \in Macs : \E ts \in ReadingSeqs(lease_nums) :
           current_lease(h) = NoIp /\ Scan(last_lease, 1, lease_nums, h, ts, 0).found

\* C7: a Request from a hardware address whose current_lease is X is answered by an
\* Ack for X, whatever it requested and whether or not the lease is expired, and
\* leaves the store, the cursor and the file as they were.
C7_HolderAcked ==
    [][\A p \in RequestPackets :
        (Handled(p) /\ current_lease(p.chaddr) # NoIp)
        => ( /\ Replies(effects') = << reply("Ack", current_lease(p.chaddr)) >>
             /\ Wrote(effects') = "none"
             /\ leases' = leases
             /\ file' = file
             /\ last_lease' = last_lease )]_vars

\* a holder whose lease is expired requests another address and is acked its own
C7_Witness ==
    /\ msg.type = "Request"
    /\ current_lease(msg.chaddr) # NoIp
    /\ req_ip(msg) # current_lease(msg.chaddr)
    /\ req_ip(msg) \in Pool
    /\ leases[current_lease(msg.chaddr)].expiry < now
    /\ sent = << reply("Ack", current_lease(msg.chaddr)) >>
    /\ wrote = "none"

\* C8 (as claimed): a Release or Decline from a hardware address whose current_lease
\* is X leaves no entry for X held by it and rewrites the file, whatever
\* for_this_server says of the packet.
C8_ReleaseAlways ==
    [][\A p \in ReleasePackets :
        (Handled(p) /\ current_lease(p.chaddr) # NoIp)
        => ( /\ current_lease(p.chaddr) \notin DOMAIN leases'
             /\ Wrote(effects') = "ok"
             /\ file' = [state |-> "json", data |-> Serialize(leases')] )]_vars

\* C8 (amended): when for_this_server holds of the packet, the entry is removed and
\* save_leases runs (the file is the serialized store when the write succeeds); when
\* it does not, the store and the file are left as they were and nothing is sent.
C8_ReleaseForThisServer ==
    [][\A p \in ReleasePackets :
        (Handled(p) /\ current_lease(p.chaddr) # NoIp)
        => IF for_this_server(p)
           THEN /\ current_lease(p.chaddr) \notin DOMAIN leases'
                /\ DOMAIN leases' = DOMAIN leases \ {current_lease(p.chaddr)}
                /\ Wrote(effects') # "none"
                /\ Wrote(effects') = "ok"
                       => file' = [state |-> "json", data |-> Serialize(leases')]
                /\ Replies(effects') = <<>>
           ELSE /\ leases' = leases
                /\ file' = file
                /\ effects' = <<>>]_vars

\* a Release for this server was handled: the sender's entry is gone and saved
C8_Witness ==
    /\ msg.type \in {"Release", "Decline"}
    /\ for_this_server(msg)
    /\ wrote = "ok"
    /\ Held(leases, msg.chaddr) = {}
    /\ file = [state |-> "json", data |-> Serialize(leases)]

\* C9: a Discover from a hardware address that holds no lease is answered, when some
\* pool address is available to it, by an Offer for an address X of the pool; the
\* Request for X that follows from it (option 50, else ciaddr) is answered by an Ack
\* for X, the store then maps X to it, save_leases ran before the Ack was sent, and
\* when the write succeeded the file is the serialized store.
C9_LeaseCycle ==
    [][/\ \A p \in DiscoverPackets :
            ( /\ Handled(p)
              /\ current_lease(p.chaddr) = NoIp
              /\ \E ip \in Pool : available(p.chaddr, ip) )
            => ( /\ Len(Replies(effects')) = 1
                 /\ Replies(effects')[1].type = "Offer"
                 /\ Replies(effects')[1].yiaddr \in Pool )
       /\ \A p \in RequestPackets :
            ( /\ msg.type = "Discover"
              /\ current_lease(msg.chaddr) = NoIp
              /\ Len(sent) = 1
              /\ Handled(p)
              /\ p.chaddr = msg.chaddr
              /\ req_ip(p) = sent[1].yiaddr )
            => ( /\ Replies(effects') = << reply("Ack", req_ip(p)) >>
                 /\ req_ip(p) \in DOMAIN leases'
                 /\ leases'[req_ip(p)].mac = p.chaddr
                 /\ Len(effects') = 2
                 /\ IsSave(effects'[1])
                 /\ IsReply(effects'[2])
                 /\ Wrote(effects') = "ok"
                        => file' = [state |-> "json", data |-> Serialize(leases')] )]_vars

\* the Request for the address the allocator loop stopped at was acked: inserted,
\* saved, then acked
C9_Witness ==
    /\ msg.type = "Request"
    /\ Len(msg.opt50) = 1
    /\ last_lease > 0
    /\ last_lease < lease_nums
    /\ req_ip(msg) = Start + last_lease
    /\ effects = << Saved("ok"), Replied(reply("Ack", req_ip(msg))) >>
    /\ req_ip(msg) \in DOMAIN leases
    /\ leases[req_ip(msg)] = Lease(msg.chaddr, now)
    /\ file = [state |-> "json", data |-> Serialize(leases)]

\* C10 (as claimed): saving the store and running the startup load on the file and
\* the static file yields the store that was saved.
C10_RoundTrip ==
    Reloaded(leases, now) = leases

\* C10 (amended): the reloaded store agrees with the saved one (address, holder,
\* expiry) on every address the static file does not name, and maps every address
\* the static file names to its static holder, expiring INFINITE_LEASE after the load.
C10_RoundTripButStatic ==
    \A t \in now .. MaxNow :
        LET l == Reloaded(leases, t)
        IN  /\ DOMAIN l = DOMAIN leases \cup StaticIps
            /\ \A ip \in DOMAIN leases \ StaticIps : l[ip] = leases[ip]
            /\ \A i \in 1 .. Len(lease_static) :
                   (\A j \in (i + 1) .. Len(lease_static) :
                        lease_static[j].ip # lease_static[i].ip)
                   => l[lease_static[i].ip] = Lease(lease_static[i].mac, t + INFINITE_LEASE)

\* a saved store with a static lease and another one, which a reload changes
C10_Witness ==
    /\ lease_static # <<>>
    /\ wrote = "ok"
    /\ file = [state |-> "json", data |-> Serialize(leases)]
    /\ DOMAIN leases \ StaticIps # {}
    /\ DOMAIN leases \cap StaticIps # {}
    /\ Reloaded(leases, now) # leases

\* C11: when the store holds the static assignment of address S to hardware address
\* M, and every other pool address holds an unexpired lease of another hardware
\* address, a Discover from M is answered by an Offer for S, and the allocator loop
\* does not run: last_lease and the store are left as they were.
C11_StaticUnderPressure ==
    [][\A p \in DiscoverPackets : \A i \in 1 .. Len(lease_static) :
        ( /\ Handled(p)
          /\ p.chaddr = lease_static[i].mac
          /\ lease_static[i].ip \in DOMAIN leases
          /\ leases[lease_static[i].ip].mac = p.chaddr
          /\ \A ip \in Pool \ {lease_static[i].ip} :
                 /\ ip \in DOMAIN leases
                 /\ leases[ip].mac # p.chaddr
                 /\ leases[ip].expiry >= now )
        => ( /\ effects' = << Replied(reply("Offer", lease_static[i].ip)) >>
             /\ last_lease' = last_lease
             /\ leases' = leases
             /\ file' = file )]_vars

\* the static holder was offered its address while the rest of the pool was leased to
\* others and the cursor stood elsewhere
C11_Witness ==
    /\ msg.type = "Discover"
    /\ Len(lease_static) = 1
    /\ msg.chaddr = lease_static[1].mac
    /\ lease_static[1].ip \in DOMAIN leases
    /\ leases[lease_static[1].ip] = Lease(msg.chaddr, INFINITE_LEASE)
    /\ \A ip \in Pool \ {lease_static[1].ip} :
           ip \in DOMAIN leases /\ leases[ip].mac # msg.chaddr /\ leases[ip].expiry >= now
    /\ Pool \ {lease_static[1].ip} # {}
    /\ last_lease # lease_static[1].ip - Start
    /\ sent = << reply("Offer", lease_static[1].ip) >>

\* C12: a Discover from a hardware address h that holds no lease is answered by an
\* Offer iff some address of [start, end) satisfies available(h, address) when the
\* loop tests it; the loop tests at most N = end - start offsets, no offset twice,
\* and all N of them when none passes, whatever the cursor it starts from; when none
\* passes nothing is sent; the store and the file are left as they were.  A test
\* reads the clock when its address holds a lease of another hardware address: an
\* address that is available when the handler starts is available at every test, so
\* an Offer is then sent, and an Offer is sent only if some address is available
\* when the handler ends.
C12_AllocatorComplete ==
    [][\A p \in DiscoverPackets :
        (Handled(p) /\ current_lease(p.chaddr) = NoIp)
        => LET off(i) == (last_lease + i) % lease_nums
               calls(i) == available_reads(leases, p.chaddr, Start + off(i))
               nth(i) == Cardinality({j \in 1 .. i : calls(j)})
               passed(i) == IF calls(i)
                            THEN availableIn(leases, reads'[nth(i)], p.chaddr, Start + off(i))
                            ELSE availableIn(leases, now, p.chaddr, Start + off(i))
               k == IF effects' = <<>> THEN lease_nums
                    ELSE ((Replies(effects')[1].yiaddr - Start + lease_nums - off(1))
                              % lease_nums) + 1
           IN  /\ effects' = <<>> \/ Len(effects') = 1
               /\ Len(Replies(effects')) = Len(effects')
               /\ k >= 1
               /\ k <= lease_nums
               /\ \A i \in 1 .. k : \A j \in 1 .. k : off(i) = off(j) => i = j
               /\ Len(reads') = nth(k)
               /\ \A i \in 1 .. (k - 1) : ~passed(i)
               /\ IF passed(k)
                  THEN effects' = << Replied(reply("Offer", Start + off(k))) >>
                  ELSE /\ k = lease_nums
                       /\ {off(i) : i \in 1 .. k} = 0 .. (lease_nums - 1)
                       /\ effects' = <<>>
               /\ (\E ip \in Pool : availableIn(leases, now, p.chaddr, ip))
                      => Len(Replies(effects')) = 1
               /\ Len(Replies(effects')) = 1
                      => \E ip \in Pool : availableIn(leases, now', p.chaddr, ip)
               /\ leases' = leases
               /\ file' = file]_vars

\* the pool is exhausted for the sender of a Discover: every offset was tested,
\* nothing was sent
C12_Witness ==
    /\ msg.type = "Discover"
    /\ current_lease(msg.chaddr) = NoIp
    /\ Len(reads) = lease_nums
    /\ \A i \in 1 .. Len(reads) : \A ip \in Pool :
           ~availableIn(leases, reads[i], msg.chaddr, ip)
    /\ effects = <<>>

\* C13: when a Discover from a hardware address that holds no lease is answered, the
\* offered address is the first one that satisfies available, when the loop tests
\* it, in cyclic order from pool offset (last_lease + 1) mod N, and last_lease is
\* then the pool offset of the offered address (offered = start + last_lease).
C13_RoundRobin ==
    [][\A p \in DiscoverPackets :
        (Handled(p) /\ current_lease(p.chaddr) = NoIp /\ Len(Replies(effects')) > 0)
        => LET offered == Replies(effects')[1].yiaddr
               first == (last_lease + 1) % lease_nums
               dist == (offered - Start + lease_nums - first) % lease_nums
               cand(j) == Start + ((first + j) % lease_nums)
               calls(j) == available_reads(leases, p.chaddr, cand(j))
               nth(j) == Cardinality({i \in 0 .. j : calls(i)})
               passed(j) == IF calls(j)
                            THEN availableIn(leases, reads'[nth(j)], p.chaddr, cand(j))
                            ELSE availableIn(leases, now, p.chaddr, cand(j))
           IN  /\ Len(Replies(effects')) = 1
               /\ offered \in Pool
               /\ Len(reads') = nth(dist)
               /\ passed(dist)
               /\ \A j \in 0 .. (dist - 1) : ~passed(j)
               /\ last_lease' = offered - Start
               /\ offered = Start + last_lease']_vars

\* an Offer of the allocator loop for the second offset it tested, the first one
\* being held unexpired by another hardware address when it was tested, the offered
\* one having become available while the loop ran
C13_Witness ==
    /\ msg.type = "Discover"
    /\ current_lease(msg.chaddr) = NoIp
    /\ sent = << reply("Offer", Start + last_lease) >>
    /\ Len(reads) = 2
    /\ reads[1] < reads[2]
    /\ ~availableIn(leases, reads[1], msg.chaddr, Start + last_lease)
    /\ availableIn(leases, reads[2], msg.chaddr, Start + last_lease)

\* C14 (as claimed): after the startup load, last_lease is the highest pool offset
\* (address - start) among the addresses of the store, static ones included, that
\* lie in [start, end), and 0 when there is none; and last_lease < N in every state.
C14_StartupCursor ==
    /\ last_lease \in 0 .. (lease_nums - 1)
    /\ msg = NoPacket =>
           LET inside == {ip - Start : ip \in DOMAIN leases \cap Pool}
           IN  last_lease = IF inside = {} THEN 0 ELSE Max(inside)

\* the packet p with the other answer of for_this_server
Twin(p) == [p EXCEPT !.fts = ~p.fts]

\* what the file system did to the save of the step ("ok" when there was none)
DiskOf(log) == IF Wrote(log) = "none" THEN "ok" ELSE Wrote(log)

\* C15 (as claimed): what handling a Request, a Release or a Decline does to the
\* store, the file and the replies is what handling the same packet with the other
\* answer of for_this_server does.
C15_Advisory ==
    [][\A p \in RequestPackets \cup ReleasePackets :
        Handled(p)
        => IF p.type = "Request"
           THEN \E ts \in ReadingSeqs(RequestReads) :
                    RequestArm(Twin(p), DiskOf(effects'), ts)
           ELSE ReleaseArm(Twin(p), DiskOf(effects'))]_vars

\* C15 (amended): for a Request the answer of for_this_server changes nothing of what
\* the handler does; for a Release or a Decline it gates the handler: when it is
\* false the store, the cursor and the file are left as they were and nothing is
\* sent or saved, and the twin packets differ exactly when the sender holds a lease.
C15_AdvisoryForRequest ==
    [][\A p \in RequestPackets \cup ReleasePackets :
        Handled(p)
        => IF p.type = "Request"
           THEN \E ts \in ReadingSeqs(RequestReads) :
                    RequestArm(Twin(p), DiskOf(effects'), ts)
           ELSE /\ ~for_this_server(p) =>
                       /\ effects' = <<>>
                       /\ UNCHANGED <<leases, iter_first, last_lease, file>>
                /\ ReleaseArm(Twin(p), DiskOf(effects'))
                       <=> current_lease(p.chaddr) = NoIp]_vars

\* a Request that is not for this server was granted: inserted, saved and acked
C15_Witness ==
    /\ msg.type = "Request"
    /\ ~for_this_server(msg)
    /\ req_ip(msg) \in DOMAIN leases
    /\ leases[req_ip(msg)] = Lease(msg.chaddr, now)
    /\ effects = << Saved("ok"), Replied(reply("Ack", req_ip(msg))) >>

\* C16 (as claimed): when save_leases fails during a Request or a Release/Decline,
\* because the file cannot be created or because the write fails, the failure is
\* logged, the insert or the removal stays in the store, the Ack of a Request is
\* still sent; and every step that changes the store calls save_leases on the whole
\* store, whatever happened to the saves before it.
C16_FailureHandled ==
    [][\A p \in RequestPackets \cup ReleasePackets :
        /\ (Handled(p) /\ Wrote(effects') \in {"create_fails", "write_fails"})
           => /\ save_leases_prints(Wrote(effects')) = "ERROR"
              /\ IF p.type = "Request"
                 THEN /\ leases' = Insert(leases, req_ip(p), Lease(p.chaddr, now'))
                      /\ Replies(effects') = << reply("Ack", req_ip(p)) >>
                 ELSE /\ leases' = Remove(leases, current_lease(p.chaddr))
                      /\ Replies(effects') = <<>>
        /\ (Handled(p) /\ leases' # leases)
           => /\ Wrote(effects') # "none"
              /\ file' = save_leases(leases', Wrote(effects'))]_vars

\* C17: a Request from a hardware address h that holds no lease, for an address
\* (option 50, else ciaddr) that is outside [start, end) or held unexpired by another
\* hardware address, is answered by one Nak whose only option is a Message and whose
\* address is 0.0.0.0, and leaves the store, the cursor and the file as they were.
C17_NakUnavailable ==
    [][\A p \in RequestPackets :
        ( /\ Handled(p)
          /\ current_lease(p.chaddr) = NoIp
          /\ \/ req_ip(p) \notin Pool
             \/ /\ req_ip(p) \in DOMAIN leases
                /\ leases[req_ip(p)].mac # p.chaddr
                /\ leases[req_ip(p)].expiry >= now )
        => ( /\ Len(Replies(effects')) = 1
             /\ Replies(effects')[1].type = "Nak"
             /\ Len(Replies(effects')[1].options) = 1
             /\ Replies(effects')[1].options[1].tag = "Message"
             /\ Replies(effects')[1].options[1].val = "Requested IP not available"
             /\ Replies(effects')[1].yiaddr = ZeroIp
             /\ Wrote(effects') = "none"
             /\ leases' = leases
             /\ last_lease' = last_lease
             /\ file' = file )]_vars

\* a Request for a pool address that another hardware address holds unexpired, from
\* a sender that holds no lease, was answered by the Nak
C17_Witness ==
    /\ msg.type = "Request"
    /\ current_lease(msg.chaddr) = NoIp
    /\ req_ip(msg) \in Pool
    /\ req_ip(msg) \in DOMAIN leases
    /\ leases[req_ip(msg)].mac # msg.chaddr
    /\ leases[req_ip(msg)].expiry >= now
    /\ effects = << Replied(nak("Requested IP not available")) >>

\* C18: a message of type Inform, Offer, Ack or Nak, or without a readable message
\* type, is answered by nothing and leaves the store, the cursor and the file as they
\* were; a Discover leaves the store and the file as they were and saves nothing.
C18_Ignored ==
    [][/\ \A p \in OtherPackets :
            Handled(p)
            => ( /\ effects' = <<>>
                 /\ leases' = leases
                 /\ iter_first' = iter_first
                 /\ last_lease' = last_lease
                 /\ file' = file )
       /\ \A p \in DiscoverPackets :
            Handled(p)
            => ( /\ leases' = leases
                 /\ iter_first' = iter_first
                 /\ file' = file
                 /\ Wrote(effects') = "none" )]_vars

\* an ignored message was handled by a server whose store and file hold a lease and
\* whose cursor the allocator has moved
C18_Witness ==
    /\ msg.type \in {"Inform", "Offer", "Ack", "Nak", "absent"}
    /\ effects = <<>>
    /\ leases # EmptyMap
    /\ file = [state |-> "json", data |-> Serialize(leases)]
    /\ last_lease = 1

\* C19 (as claimed): the lease a Request inserts at time t expires at t plus the
\* lease duration, the duration the Ack carries in its lease-time option, so that at
\* every time from t up to t + duration (excluded) the address is not available to
\* any other hardware address.
C19_ExpiryIsDuration ==
    [][\A p \in RequestPackets :
        (Handled(p) /\ Wrote(effects') # "none")
        => LET duration == Replies(effects')[1].options[1].val
               t == reads'[Len(reads')]
           IN  /\ Replies(effects')[1].options[1].tag = "IpAddressLeaseTime"
               /\ duration = lease_secs
               /\ leases'[req_ip(p)] = Lease(p.chaddr, t + duration)
               /\ \A u \in t .. (t + duration - 1) : \A h \in Macs \ {p.chaddr} :
                      ~availableIn(leases', u, h, req_ip(p))]_vars

\* C20: handling a Release or a Decline from hardware address h removes at most one
\* entry of the store, an entry h holds; the entries of every other hardware address
\* stay as they were (address, holder, expiry), and so does last_lease; when h holds
\* no lease nothing changes and save_leases is not called.
C20_ReleaseIsolation ==
    [][\A p \in ReleasePackets :
        Handled(p)
        => ( /\ DOMAIN leases' \subseteq DOMAIN leases
             /\ Cardinality(DOMAIN leases \ DOMAIN leases') <= 1
             /\ \A ip \in DOMAIN leases \ DOMAIN leases' : leases[ip].mac = p.chaddr
             /\ \A ip \in DOMAIN leases' : leases'[ip] = leases[ip]
             /\ \A ip \in DOMAIN leases :
                    leases[ip].mac # p.chaddr => ip \in DOMAIN leases'
             /\ last_lease' = last_lease
             /\ Held(leases, p.chaddr) = {} =>
                    ( /\ leases' = leases
                      /\ file' = file
                      /\ effects' = <<>> ) )]_vars

\* a Release removed the sender's entry and saved, the entry of another hardware
\* address staying in the store
C20_Witness ==
    /\ msg.type \in {"Release", "Decline"}
    /\ wrote = "ok"
    /\ \E ip \in DOMAIN leases : leases[ip].mac # msg.chaddr
    /\ \E ip \in Pool : ip \notin DOMAIN leases
    /\ last_lease # 0
=============================================================================
